---- MODULE Spec2Model ----
(***************************************************************************)
(* The crawl-and-extract pipeline of spiders/news_spider.py: NewsSpider    *)
(* (start_requests, parse, parse_article) driven by the crawler process    *)
(* that run_spider starts, under the spider's custom_settings.             *)
(*                                                                         *)
(* Requests the spider yields go through the crawler's duplicate filter    *)
(* (no request sets dont_filter), wait in the crawler's queue, and are     *)
(* downloaded one per host at a time, DOWNLOAD_DELAY apart.  Callbacks run  *)
(* one at a time on the crawler's single thread; parse_article retrieves   *)
(* the page a second time with NewsPlease.from_url, a blocking call made    *)
(* from inside the callback, outside the crawler's download slots.         *)
(*                                                                         *)
(* Left out: redirects and retries of a download (response.url is the URL  *)
(* that was requested), the randomisation of the delay around              *)
(* DOWNLOAD_DELAY, the crawler-wide cap on concurrent requests, and the     *)
(* date and authors columns of a row.  start_requests is one step: the      *)
(* crawler has taken every seed request before the first response is       *)
(* parsed.  Time is counted in whole seconds.                              *)
(***************************************************************************)
EXTENDS Naturals, Sequences, FiniteSets

VARIABLES
    pc,            \* "init" before run_spider, "running", "done" once process.start() returns
    seen,          \* fingerprints the duplicate filter has admitted
    queue,         \* admitted requests that wait for a download slot
    transferring,  \* requests the crawler is downloading
    scraping,      \* downloaded responses that wait for their callback
    blocking,      \* the response whose parse_article is inside NewsPlease.from_url (at most one)
    lastseen,      \* per host: seconds since the crawler last started a download (saturates)
    output,        \* the rows of news.csv, in the order they were appended
    sinceStart,    \* history: per host, seconds since any request to it started (saturates)
    admitLog,      \* history: every admitted request with the page it was found on ("" for a seed)
    rejected,      \* history: URLs whose enqueue was refused as a duplicate
    crawled,       \* history: URLs whose download the crawler started
    failed,        \* history: requests whose fetch failed or whose extraction found nothing
    page,          \* link discovery on one page: the hyperlink targets of the page
    base,          \* link discovery on one page: the URL of the page
    found          \* link discovery on one page: the URLs parse follows

vars == <<pc, seen, queue, transferring, scraping, blocking, lastseen, output,
          sinceStart, admitLog, rejected, crawled, failed, page, base, found>>

(***************************************************************************)
(* Settings and bounds                                                     *)
(***************************************************************************)
DOWNLOAD_DELAY == 2

CONCURRENT_REQUESTS_PER_DOMAIN == 1

\* most hyperlink targets on one section page of a crawl
MaxLinks == 2

\* most hyperlink targets on the page handed to link discovery alone
MaxPageLen == 4

(***************************************************************************)
(* URLs and hyperlink targets.  A target is the text of an href attribute, *)
(* kept in its parts: "" for a part that is absent.                        *)
(***************************************************************************)
Url(s, h, p, sl, f) == [scheme |-> s, host |-> h, path |-> p, slash |-> sl, frag |-> f]

Hosts == {"d1", "d2"}

LinkA      == Url("http", "d1", "/a", FALSE, "")       \* http://d1/a
LinkATop   == Url("http", "d1", "/a", FALSE, "top")    \* http://d1/a#top
LinkASlash == Url("http", "d1", "/a", TRUE, "")        \* http://d1/a/
LinkC      == Url("https", "d2", "/c", FALSE, "")      \* https://d2/c
LinkRel    == Url("", "", "/b", FALSE, "")             \* /b
LinkRelH   == Url("", "", "/http-live", FALSE, "")     \* /http-live
LinkEmpty  == Url("", "", "", FALSE, "")               \* the empty string
LinkJs     == Url("javascript", "", "void(0)", FALSE, "")        \* javascript:void(0)
LinkMail   == Url("mailto", "", "?body=http://d1/a", FALSE, "")  \* mailto:?body=http://d1/a
LinkSeed   == Url("http", "d1", "/business", FALSE, "") \* http://d1/business, a section page

Hrefs == {LinkA, LinkATop, LinkC, LinkRel, LinkRelH, LinkEmpty, LinkJs, LinkMail}

\* the targets the section pages of a crawl are made of
CrawlHrefs == {LinkA, LinkATop, LinkASlash, LinkRel, LinkSeed}

\* newspapers: paper -> section -> URL, one entry per (paper, section)
newspapers ==
    { [newspaper |-> "X", section |-> "business", url |-> Url("http", "d1", "/business", FALSE, "")],
      [newspaper |-> "Y", section |-> "business", url |-> Url("https", "d2", "/business", FALSE, "")] }

SeedUrls == {s.url : s \in newspapers}

Request(u, cb, paper, sec) ==
    [url |-> u, callback |-> cb, newspaper |-> paper, section |-> sec]

(***************************************************************************)
(* Link discovery: the pure part of parse                                  *)
(***************************************************************************)
Range(s) == {s[i] : i \in DOMAIN s}

\* `if link`: the empty string is false
Truthy(link) == link # LinkEmpty

\* `'http' in link`: a substring test on the whole text of the target
ContainsHttp(link) ==
    \/ link.scheme \in {"http", "https"}
    \/ link.path \in {"/http-live", "?body=http://d1/a"}

\* response.follow resolves the target against the URL of the page
urljoin(b, link) ==
    IF link.scheme # ""
    THEN link
    ELSE [scheme |-> b.scheme, host |-> b.host,
          path |-> IF link.path = "" THEN b.path ELSE link.path,
          slash |-> IF link.path = "" THEN b.slash ELSE link.slash,
          frag |-> link.frag]

\* the URLs parse follows: one per element of set(links) that passes the test
parse_links(links, b) ==
    {urljoin(b, l) : l \in {x \in links : Truthy(x) /\ ContainsHttp(x)}}

\* the tag parse_article reads back: meta=response.meta
follow_meta_stale(r) == [newspaper |-> "Y", section |-> "business"]

follow_meta(r) == [newspaper |-> r.newspaper, section |-> r.section]

\* the requests parse yields for one response
parse_requests(links, r) ==
    {Request(u, "parse_article", follow_meta(r).newspaper, follow_meta(r).section) :
        u \in parse_links(links, r.url)}

(***************************************************************************)
(* The crawler's duplicate filter, download slots and close                *)
(***************************************************************************)
request_fingerprint_whole(u) == u

\* The duplicate filter compares requests by the fingerprint of the URL: the URL
\* without its fragment.  A trailing slash is part of the path and is kept.
request_fingerprint(u) ==
    [scheme |-> u.scheme, host |-> u.host, path |-> u.path, slash |-> u.slash]

enqueue_unfiltered(yielded, seenSet) == {yielded}

\* The subsets of the yielded requests the filter can admit: one request per new
\* fingerprint, whichever of them set(links) happens to produce first.
enqueue(yielded, seenSet) ==
    {adm \in SUBSET yielded :
        /\ \A q \in adm : request_fingerprint(q.url) \notin seenSet
        /\ \A q1, q2 \in adm :
              request_fingerprint(q1.url) = request_fingerprint(q2.url) => q1 = q2
        /\ \A q \in yielded :
              request_fingerprint(q.url) \notin seenSet =>
                 \E a \in adm : request_fingerprint(a.url) = request_fingerprint(q.url)}

Min(a, b) == IF a <= b THEN a ELSE b

\* a download slot of the host is free and the delay since its last download has passed
slot_free(h) ==
    /\ Cardinality({t \in transferring : t.url.host = h}) < CONCURRENT_REQUESTS_PER_DOMAIN
    /\ lastseen[h] >= DOWNLOAD_DELAY

\* callbacks and downloads are started by one thread, which from_url blocks
reactor_free == blocking = {}

download_error_abort(q) == {}

\* a failed download has no errback: it is logged and the queue is left alone
download_error(q) == q

spider_idle_downloads_only == queue = {} /\ transferring = {}

\* process.start() returns when nothing is queued, downloading or being scraped
spider_idle ==
    queue = {} /\ transferring = {} /\ scraping = {} /\ blocking = {}

\* what NewsPlease.from_url can return: None, or an article with whatever was extracted
NoArticle == [ok |-> FALSE, title |-> "", maintext |-> 0]

from_url ==
    { NoArticle,
      [ok |-> TRUE, title |-> "T", maintext |-> 250],
      [ok |-> TRUE, title |-> "T", maintext |-> 199],
      [ok |-> TRUE, title |-> "",  maintext |-> 250] }

\* the row parse_article yields (date and authors are copied like title)
item(article, r) ==
    [title |-> article.title, text |-> article.maintext, url |-> r.url,
     newspaper |-> r.newspaper, section |-> r.section]

(***************************************************************************)
(* The crawl                                                               *)
(***************************************************************************)
PageSets == {ls \in SUBSET CrawlHrefs : Cardinality(ls) <= MaxLinks}

Init ==
    /\ pc = "init"
    /\ seen = {}
    /\ queue = {}
    /\ transferring = {}
    /\ scraping = {}
    /\ blocking = {}
    /\ lastseen = [h \in Hosts |-> DOWNLOAD_DELAY]
    /\ output = <<>>
    /\ sinceStart = [h \in Hosts |-> DOWNLOAD_DELAY]
    /\ admitLog = {}
    /\ rejected = {}
    /\ crawled = {}
    /\ failed = {}
    /\ page = <<>>
    /\ base = LinkEmpty
    /\ found = {}

\* run_spider starts the crawl; the crawler takes every request start_requests yields
start_requests ==
    /\ pc = "init"
    /\ LET yielded == {Request(s.url, "parse", s.newspaper, s.section) : s \in newspapers}
       IN \E adm \in enqueue(yielded, seen) :
            /\ queue' = queue \cup adm
            /\ seen' = seen \cup {request_fingerprint(q.url) : q \in yielded}
            /\ admitLog' = admitLog \cup {[url |-> q.url, parent |-> LinkEmpty] : q \in adm}
    /\ pc' = "running"
    /\ UNCHANGED <<transferring, scraping, blocking, lastseen, output, sinceStart,
                   rejected, crawled, failed, page, base, found>>

\* the crawler starts the download of a queued request
download(r) ==
    /\ pc = "running" /\ reactor_free
    /\ r \in queue
    /\ slot_free(r.url.host)
    /\ queue' = queue \ {r}
    /\ transferring' = transferring \cup {r}
    /\ lastseen' = [lastseen EXCEPT ![r.url.host] = 0]
    /\ sinceStart' = [sinceStart EXCEPT ![r.url.host] = 0]
    /\ crawled' = crawled \cup {r.url}
    /\ UNCHANGED <<pc, seen, scraping, blocking, output, admitLog, rejected, failed,
                   page, base, found>>

\* a download ends with a response for the callback
download_ok(r) ==
    /\ pc = "running" /\ reactor_free
    /\ r \in transferring
    /\ transferring' = transferring \ {r}
    /\ scraping' = scraping \cup {r}
    /\ UNCHANGED <<pc, seen, queue, blocking, lastseen, output, sinceStart, admitLog,
                   rejected, crawled, failed, page, base, found>>

\* a download ends with an error (timeout, connection error, HTTP error status)
download_fail(r) ==
    /\ pc = "running" /\ reactor_free
    /\ r \in transferring
    /\ transferring' = transferring \ {r}
    /\ queue' = download_error(queue)
    /\ failed' = failed \cup {r}
    /\ UNCHANGED <<pc, seen, scraping, blocking, lastseen, output, sinceStart, admitLog,
                   rejected, crawled, page, base, found>>

\* parse: the callback of a section page
parse(r) ==
    /\ pc = "running" /\ reactor_free
    /\ r \in scraping /\ r.callback = "parse"
    /\ \E links \in PageSets :
         LET yielded == parse_requests(links, r)
         IN \E adm \in enqueue(yielded, seen) :
              /\ queue' = queue \cup adm
              /\ seen' = seen \cup {request_fingerprint(q.url) : q \in yielded}
              /\ admitLog' = admitLog \cup {[url |-> q.url, parent |-> r.url] : q \in adm}
              /\ rejected' = rejected \cup {q.url : q \in yielded \ adm}
    /\ scraping' = scraping \ {r}
    /\ UNCHANGED <<pc, transferring, blocking, lastseen, output, sinceStart, crawled,
                   failed, page, base, found>>

\* parse_article, up to the call of NewsPlease.from_url(response.url)
parse_article_call(r) ==
    /\ pc = "running" /\ reactor_free
    /\ r \in scraping /\ r.callback = "parse_article"
    /\ scraping' = scraping \ {r}
    /\ blocking' = {r}
    /\ sinceStart' = [sinceStart EXCEPT ![r.url.host] = 0]
    /\ UNCHANGED <<pc, seen, queue, transferring, lastseen, output, admitLog, rejected,
                   crawled, failed, page, base, found>>

\* parse_article, from the return of NewsPlease.from_url
parse_article_return(r) ==
    /\ pc = "running"
    /\ r \in blocking
    /\ blocking' = {}
    /\ \E article \in from_url :
         IF article.ok
         THEN /\ output' = Append(output, item(article, r))
              /\ failed' = failed
         ELSE /\ output' = output
              /\ failed' = failed \cup {r}
    /\ UNCHANGED <<pc, seen, queue, transferring, scraping, lastseen, sinceStart,
                   admitLog, rejected, crawled, page, base, found>>

\* one second passes
tick ==
    /\ pc = "running"
    /\ \E h \in Hosts : lastseen[h] < DOWNLOAD_DELAY \/ sinceStart[h] < DOWNLOAD_DELAY
    /\ lastseen' = [h \in Hosts |-> Min(lastseen[h] + 1, DOWNLOAD_DELAY)]
    /\ sinceStart' = [h \in Hosts |-> Min(sinceStart[h] + 1, DOWNLOAD_DELAY)]
    /\ UNCHANGED <<pc, seen, queue, transferring, scraping, blocking, output, admitLog,
                   rejected, crawled, failed, page, base, found>>

\* run_spider: process.start() returns once the crawl is idle
run_spider ==
    /\ pc = "running" /\ spider_idle
    /\ pc' = "done"
    /\ UNCHANGED <<seen, queue, transferring, scraping, blocking, lastseen, output,
                   sinceStart, admitLog, rejected, crawled, failed, page, base, found>>

AllRequests ==
    {Request(s.url, "parse", s.newspaper, s.section) : s \in newspapers} \cup
    {Request(urljoin(s.url, l), "parse_article", t.newspaper, t.section) :
        s \in newspapers, l \in CrawlHrefs, t \in newspapers}

Next ==
    \/ start_requests
    \/ \E r \in AllRequests : download(r)
    \/ \E r \in AllRequests : download_ok(r)
    \/ \E r \in AllRequests : download_fail(r)
    \/ \E r \in AllRequests : parse(r)
    \/ \E r \in AllRequests : parse_article_call(r)
    \/ \E r \in AllRequests : parse_article_return(r)
    \/ tick
    \/ run_spider

Spec == Init /\ [][Next]_vars

\* the crawler keeps running events until the crawl is idle
FairSpec == Spec /\ WF_vars(Next)

(***************************************************************************)
(* Link discovery on one page, alone                                       *)
(***************************************************************************)
Pages == UNION {[1..n -> Hrefs] : n \in 0..MaxPageLen}

DiscoverInit ==
    /\ pc = "page"
    /\ page \in Pages
    /\ base \in SeedUrls
    /\ found = {}
    /\ seen = {} /\ queue = {} /\ transferring = {} /\ scraping = {} /\ blocking = {}
    /\ lastseen = [h \in Hosts |-> DOWNLOAD_DELAY]
    /\ sinceStart = [h \in Hosts |-> DOWNLOAD_DELAY]
    /\ output = <<>> /\ admitLog = {} /\ rejected = {} /\ crawled = {} /\ failed = {}

\* parse, lines 54-56: links = ...getall(); for link in set(links): if link and 'http' in link
discover ==
    /\ pc = "page"
    /\ found' = parse_links(Range(page), base)
    /\ pc' = "parsed"
    /\ UNCHANGED <<seen, queue, transferring, scraping, blocking, lastseen, output,
                   sinceStart, admitLog, rejected, crawled, failed, page, base>>

DiscoverNext == discover

DiscoverSpec == DiscoverInit /\ [][DiscoverNext]_vars

(***************************************************************************)
(* Properties                                                              *)
(***************************************************************************)
\* every request in flight: the crawler's downloads and the retrieval inside from_url
InFlight == transferring \cup blocking

InFlightTo(h) == {r \in InFlight : r.url.host = h}

\* the seed and candidate requests that are admitted and not yet through their callback
Pending == queue \cup transferring \cup scraping \cup blocking

RecordUrls == {output[i].url : i \in DOMAIN output}

\* C1: in every reachable state, every host has at most one request in flight,
\* counting the crawler's downloads (seed pages and candidates) and the
\* retrieval NewsPlease.from_url performs inside parse_article.
C1_OneInFlightPerDomain ==
    \A h \in Hosts : Cardinality(InFlightTo(h)) <= 1

\* C2: whenever a request to a host starts (a download or a from_url retrieval),
\* at least DOWNLOAD_DELAY seconds have passed since the previous request to
\* that host started.
C2_MinDelayBetweenStarts ==
    [][\A h \in Hosts :
          (\E r \in (transferring' \ transferring) \cup (blocking' \ blocking) :
              r.url.host = h)
          => sinceStart[h] >= DOWNLOAD_DELAY]_vars

\* the normal form of a URL in the frontier's contract: the fragment stripped and
\* a trailing slash collapsed (scheme and host are lower case throughout)
NormalForm(u) == [scheme |-> u.scheme, host |-> u.host, path |-> u.path]

WithoutFragment(u) == [u EXCEPT !.frag = ""]

C4_UniqueOutputUrls ==
    \A i, j \in DOMAIN output : output[i].url = output[j].url => i = j

\* C4 witness: two rows are written, one of them for a URL that was found twice
C4_Witness ==
    /\ Len(output) = 2
    /\ \E i \in DOMAIN output :
          \E u \in rejected : WithoutFragment(u) = WithoutFragment(output[i].url)

IsolationInv ==
    /\ \A r \in failed : r.url \notin RecordUrls
    /\ \A r \in failed :
          r.callback = "parse" => \A e \in admitLog : e.parent # r.url
    /\ pc = "done" =>
          /\ \A e \in admitLog : e.url \in crawled
          /\ \A e \in admitLog : \A r \in Pending : r.url # e.url

\* C6: a failed fetch or an extraction miss writes no row, a failed seed page
\* contributes no candidate, every other admitted seed and candidate is still
\* fetched and handled, and the run ends.
C6_FailureIsolation == [](IsolationInv) /\ <>(pc = "done")

\* C6 witness: the run ended with a failed seed page, a failed candidate and a row
C6_Witness ==
    /\ pc = "done"
    /\ \E r \in failed : r.callback = "parse"
    /\ \E r \in failed : r.callback = "parse_article"
    /\ Len(output) >= 1

\* C7: a queued request to a host that has nothing in flight and whose own delay
\* has passed can start, whatever another host's requests are doing.
C7_CrossDomainIndependence ==
    \A r \in queue :
        (/\ pc = "running"
         /\ InFlightTo(r.url.host) = {}
         /\ lastseen[r.url.host] >= DOWNLOAD_DELAY
         /\ sinceStart[r.url.host] >= DOWNLOAD_DELAY)
        => ENABLED download(r)

\* the candidate set the page is said to give: every target that is not empty,
\* resolved against the page, kept when it is an http(s) URL
ResolvedHttpLinks(links, b) ==
    {u \in {urljoin(b, l) : l \in Range(links) \ {LinkEmpty}} :
        u.scheme \in {"http", "https"}}

\* C8: link discovery on a page gives exactly the distinct absolute http(s) URLs
\* its targets resolve to: relative targets kept, other schemes dropped.
C8_DiscoveryExact ==
    pc = "parsed" => found = ResolvedHttpLinks(page, base)

\* C9: every row has a title and a body text of at least 200 characters.
C9_NoPartialRecord ==
    \A i \in DOMAIN output : output[i].title # "" /\ output[i].text >= 200

PhaseInv ==
    /\ pc = "init" => crawled = {} /\ Pending = {} /\ output = <<>>
    /\ \A u \in crawled \ SeedUrls :
          \E e \in admitLog :
              /\ e.url = u
              /\ e.parent \in crawled
              /\ \A r \in Pending : r.url # e.parent
    /\ pc = "done" =>
          /\ queue = {} /\ transferring = {} /\ scraping = {} /\ blocking = {}
          /\ \A e \in admitLog : e.url \in crawled

PhaseStep ==
    /\ pc = "init" => pc' \in {"init", "running"}
    /\ pc = "running" => pc' \in {"running", "done"}
    /\ pc = "done" => UNCHANGED vars

====
